---- MODULE Spec2Model ----
(***************************************************************************)
(* UserController of leveluplife (src/leveluplife/controllers/user.py):    *)
(* the storage it reads and writes, its operations as the steps they take  *)
(* against that storage, and the two row aggregators that turn joined rows *)
(* into nested views.                                                      *)
(*                                                                         *)
(* A nullable object (Python None / SQL NULL) is a sequence of length 0 or *)
(* 1: <<>> is None, <<x>> is the object x.  A Python dict, which keeps     *)
(* insertion order, is a sequence of [key, value] records.                 *)
(***************************************************************************)
EXTENDS Integers, Sequences, FiniteSets, TLC

VARIABLES users, links, nextId, writes, pc, arg, result, input, output

vars == <<users, links, nextId, writes, pc, arg, result, input, output>>

\* ------------------------------------------------------------------ bounds
MaxRows == 3
MaxWrites == 2
MaxOffset == 1
MaxLimit == 2

Procs == {1, 2}

\* ------------------------------------------------------- initial attributes
\* The table without the branch of GLIMMERKINS, which then gets the default row.
calculate_initial_stats_branch_missing(tribe) ==
    IF tribe = "NOSFERATI"
    THEN [intelligence |-> 8, strength |-> 2, agility |-> 2, wise |-> 1, psycho |-> 10]
    ELSE IF tribe = "VALHARS"
    THEN [intelligence |-> 1, strength |-> 10, agility |-> 6, wise |-> 6, psycho |-> 2]
    ELSE IF tribe = "SAHARANS"
    THEN [intelligence |-> 9, strength |-> 2, agility |-> 3, wise |-> 10, psycho |-> 1]
    ELSE [intelligence |-> 5, strength |-> 5, agility |-> 5, wise |-> 5, psycho |-> 5]

calculate_initial_stats(tribe) ==
    IF tribe = "NOSFERATI"
    THEN [intelligence |-> 8, strength |-> 2, agility |-> 2, wise |-> 1, psycho |-> 10]
    ELSE IF tribe = "VALHARS"
    THEN [intelligence |-> 1, strength |-> 10, agility |-> 6, wise |-> 6, psycho |-> 2]
    ELSE IF tribe = "SAHARANS"
    THEN [intelligence |-> 9, strength |-> 2, agility |-> 3, wise |-> 10, psycho |-> 1]
    ELSE IF tribe = "GLIMMERKINS"
    THEN [intelligence |-> 10, strength |-> 2, agility |-> 2, wise |-> 7, psycho |-> 4]
    ELSE [intelligence |-> 5, strength |-> 5, agility |-> 5, wise |-> 5, psycho |-> 5]

\* The values a draft's tribe can take: the four members of Tribe, an unset
\* tribe (None) and a value that is no member.
TribeInputs == {"NOSFERATI", "VALHARS", "SAHARANS", "GLIMMERKINS", "None", "OTHER"}

get_password_hash(password) == "hash:" \o password

\* User(**user_create.model_dump(), **initial_stats) with the hashed password
NewUser(id, user_create) ==
    [id |-> id, username |-> user_create.username, email |-> user_create.email,
     tribe |-> user_create.tribe, password |-> get_password_hash(user_create.password)]
    @@ calculate_initial_stats(user_create.tribe)

\* ----------------------------------------------------------------- storage
\* The tables this controller only reads.
Items == {[id |-> 1, name |-> "sword"], [id |-> 2, name |-> "shield"]}
Quests == {[id |-> 1, name |-> "dawn"], [id |-> 2, name |-> "dusk"]}
UserQuestLinks ==
    {[user_id |-> 1, quest_id |-> 1, quest_start |-> 10, quest_end |-> <<>>, status |-> "active"],
     [user_id |-> 2, quest_id |-> 1, quest_start |-> 11, quest_end |-> <<12>>, status |-> "done"],
     [user_id |-> 2, quest_id |-> 2, quest_start |-> 13, quest_end |-> <<>>, status |-> "active"]}
Tasks == {[id |-> 1, user_id |-> 1], [id |-> 2, user_id |-> 2]}
Ratings == {[id |-> 1, user_id |-> 2]}
Comments == {[id |-> 1, user_id |-> 1]}
Reactions == {[id |-> 1, user_id |-> 2]}

\* The tables this controller writes, as they are once two persons have been
\* created and linked to items.
StoredUsers ==
    {NewUser(1, [username |-> "u1", email |-> "e1", tribe |-> "NOSFERATI", password |-> "p1"]),
     NewUser(2, [username |-> "u2", email |-> "e2", tribe |-> "NOSFERATI", password |-> "p2"])}
StoredLinks ==
    {[user_id |-> 1, item_id |-> 1, equipped |-> FALSE],
     [user_id |-> 1, item_id |-> 2, equipped |-> TRUE],
     [user_id |-> 2, item_id |-> 1, equipped |-> TRUE]}

\* --------------------------------------------------------------- the joins
Opt(S) == IF S = {} THEN {<<>>} ELSE {<<x>> : x \in S}

\* JOIN UserItemLink ... JOIN Item ..., both outer
ItemSide(u) ==
    LET ls == {l \in links : l.user_id = u.id}
    IN IF ls = {} THEN {<<<<>>, <<>>>>}
       ELSE UNION {{<<<<l>>, i>> : i \in Opt({it \in Items : it.id = l.item_id})} : l \in ls}

\* JOIN UserQuestLink ... JOIN Quest ..., both outer
QuestSide(u) ==
    LET ls == {l \in UserQuestLinks : l.user_id = u.id}
    IN IF ls = {} THEN {<<<<>>, <<>>>>}
       ELSE UNION {{<<<<l>>, q>> : q \in Opt({qu \in Quests : qu.id = l.quest_id})} : l \in ls}

Owned(T, u) == Opt({c \in T : c.user_id = u.id})

\* select(User, UserItemLink, Item, UserQuestLink, Quest) for the persons us
SingleJoin(us) ==
    UNION {{[user |-> u, user_item_link |-> i[1], item |-> i[2],
             user_quest_link |-> q[1], quest |-> q[2]]
            : i \in ItemSide(u), q \in QuestSide(u)} : u \in us}

\* select(User, UserItemLink, Item, Task, Rating, Comment, Reaction,
\*        UserQuestLink, Quest) for the persons us
FullJoin(us) ==
    UNION {{[user |-> u, user_item_link |-> i[1], item |-> i[2], task |-> t,
             rating |-> r, comment |-> c, reaction |-> x,
             user_quest_link |-> q[1], quest |-> q[2]]
            : i \in ItemSide(u), t \in Owned(Tasks, u), r \in Owned(Ratings, u),
              c \in Owned(Comments, u), x \in Owned(Reactions, u), q \in QuestSide(u)}
           : u \in us}

Range(s) == {s[i] : i \in DOMAIN s}

\* The sequences of k distinct elements of S: what a query without ORDER BY
\* can return of the rows S in its first k places.
RECURSIVE InjSeqs(_, _)
InjSeqs(S, k) ==
    IF k = 0 THEN {<<>>}
    ELSE UNION {{Append(s, x) : x \in S \ Range(s)} : s \in InjSeqs(S, k - 1)}

Min(a, b) == IF a < b THEN a ELSE b
Max(a, b) == IF a > b THEN a ELSE b

\* ------------------------------------------------------------ Python dicts
DictHas(d, k) == \E i \in DOMAIN d : d[i].key = k

\* A dict that stores under a key it already holds a second time.
PutAlways(d, k, v) == Append(d, [key |-> k, value |-> v])

\* if k not in d: d[k] = v
PutIfAbsent(d, k, v) ==
    IF DictHas(d, k) THEN d ELSE Append(d, [key |-> k, value |-> v])

\* The values of a dict that does not keep insertion order.
DictValuesReversed(d) == [i \in DOMAIN d |-> d[Len(d) + 1 - i].value]

\* list(d.values())
DictValues(d) == [i \in DOMAIN d |-> d[i].value]

\* A dump that leaves nothing out.
model_dump_everything(obj, exclude) == obj

\* model_dump(exclude=...)
model_dump(obj, exclude) == [f \in (DOMAIN obj) \ exclude |-> obj[f]]

\* ------------------------------------------------------ batch aggregation
NewEntry(user) ==
    [user |-> user, items |-> <<>>, tasks |-> <<>>, ratings |-> <<>>,
     comments |-> <<>>, reactions |-> <<>>, quests |-> <<>>]

ItemUserView(item, link) == item @@ [equipped |-> link.equipped]

QuestUserViewBatch(quest, link) ==
    quest @@ [quest_start |-> link.quest_start, quest_end |-> link.quest_end,
              status |-> link.status]

\* The loop body of _construct_user_views on one tuple t; acc is the dict users.
AggregateRow(acc, t) ==
    LET acc1 == PutIfAbsent(acc, t.user.id, NewEntry(t.user))
        at == CHOOSE i \in DOMAIN acc1 : acc1[i].key = t.user.id
        e0 == acc1[at].value
        e1 == IF t.user_item_link # <<>> /\ t.item # <<>>
              THEN [e0 EXCEPT !.items =
                       PutIfAbsent(@, <<t.item[1].id, t.user.id>>,
                                   ItemUserView(t.item[1], t.user_item_link[1]))]
              ELSE e0
        e2 == IF t.task # <<>>
              THEN [e1 EXCEPT !.tasks = PutIfAbsent(@, t.task[1].id, t.task[1])]
              ELSE e1
        e3 == IF t.rating # <<>>
              THEN [e2 EXCEPT !.ratings = PutIfAbsent(@, t.rating[1].id, t.rating[1])]
              ELSE e2
        e4 == IF t.comment # <<>>
              THEN [e3 EXCEPT !.comments = PutIfAbsent(@, t.comment[1].id, t.comment[1])]
              ELSE e3
        e5 == IF t.reaction # <<>>
              THEN [e4 EXCEPT !.reactions = PutIfAbsent(@, t.reaction[1].id, t.reaction[1])]
              ELSE e4
        e6 == IF t.user_quest_link # <<>> /\ t.quest # <<>>
              THEN [e5 EXCEPT !.quests =
                       PutIfAbsent(@, <<t.quest[1].id, t.user.id>>,
                                   QuestUserViewBatch(t.quest[1], t.user_quest_link[1]))]
              ELSE e5
    IN [acc1 EXCEPT ![at].value = e6]

RECURSIVE AggregateRows(_, _)
AggregateRows(rows, n) ==
    IF n = 0 THEN <<>> ELSE AggregateRow(AggregateRows(rows, n - 1), rows[n])

\* The list comprehension that ends _construct_user_views
BatchUserView(user_data) ==
    model_dump(user_data.user, {"password"})
    @@ [items |-> DictValues(user_data.items), tasks |-> DictValues(user_data.tasks),
        ratings |-> DictValues(user_data.ratings),
        comments |-> DictValues(user_data.comments),
        reactions |-> DictValues(user_data.reactions),
        quests |-> DictValues(user_data.quests)]

construct_user_views(rows) ==
    LET acc == AggregateRows(rows, Len(rows))
    IN [i \in DOMAIN acc |-> BatchUserView(acc[i].value)]

\* --------------------------------------------------- the batch aggregator
\* The tuples the aggregator is fed: the rows of the six-relation join, the
\* same rows with the item missing (outer join on a link whose item is gone)
\* or with no link at all, and the same rows with a second task of the person.
BatchTuples ==
    LET J == FullJoin(StoredUsers)
    IN J \cup {[r EXCEPT !.item = <<>>] : r \in J}
         \cup {[r EXCEPT !.item = <<>>, !.user_item_link = <<>>] : r \in J}
         \cup {[r EXCEPT !.task = <<[id |-> 3, user_id |-> r.user.id]>>] : r \in J}

InitStorage ==
    /\ users = StoredUsers
    /\ links = StoredLinks
    /\ nextId = 3
    /\ writes = 0
    /\ pc = [p \in Procs |-> "idle"]
    /\ arg = [p \in Procs |-> <<>>]
    /\ result = [p \in Procs |-> [op |-> "none", args |-> <<>>, kind |-> "none", value |-> <<>>]]

Init ==
    /\ InitStorage
    /\ input = <<>>
    /\ output = <<>>

\* _construct_user_views applied to a sequence one tuple longer
Aggregate(t) ==
    /\ Len(input) < MaxRows
    /\ input' = Append(input, t)
    /\ output' = construct_user_views(input')
    /\ UNCHANGED <<users, links, nextId, writes, pc, arg, result>>

NextBatch == \E t \in BatchTuples : Aggregate(t)

SpecBatch == Init /\ [][NextBatch]_vars

\* ------------------------------------------------ single-entity views
\* A relationship collection (user.tasks, ...) in storage-native order: by id
RECURSIVE SortById(_)
SortById(S) ==
    IF S = {} THEN <<>>
    ELSE LET m == CHOOSE x \in S : \A y \in S : x.id <= y.id
         IN <<m>> \o SortById(S \ {m})

QuestUserView(quest, user, link) ==
    quest @@ [user_id |-> user.id, quest_start |-> link.quest_start,
              quest_end |-> link.quest_end, status |-> link.status]

MapSeq(s, Op(_)) == [i \in DOMAIN s |-> Op(s[i])]

HasItem(r) == r.item # <<>>
HasQuest(r) == r.quest # <<>>

\* _construct_user_view on a non-empty list of rows
construct_user_view(rows) ==
    LET user == rows[1].user
        user_items == MapSeq(SelectSeq(rows, HasItem),
                             LAMBDA r : ItemUserView(r.item[1], r.user_item_link[1]))
        user_quests == MapSeq(SelectSeq(rows, HasQuest),
                              LAMBDA r : QuestUserView(r.quest[1], user, r.user_quest_link[1]))
    IN model_dump(user, {"password"})
       @@ [items |-> user_items, quests |-> user_quests,
           tasks |-> SortById({t \in Tasks : t.user_id = user.id}),
           ratings |-> SortById({t \in Ratings : t.user_id = user.id}),
           comments |-> SortById({t \in Comments : t.user_id = user.id}),
           reactions |-> SortById({t \in Reactions : t.user_id = user.id})]

\* .all() of a query without ORDER BY: the rows in any order
AllRows(S) == InjSeqs(S, Cardinality(S))

\* ------------------------------------------------------- operation inputs
Usernames == {"u1", "u2", "u3"}
Emails == {"e1", "e2", "e3"}
Ids == 1 .. nextId
ItemIds == 1 .. 3
TribeMembers == {"NOSFERATI", "VALHARS", "SAHARANS", "GLIMMERKINS"}
Drafts ==
    [username : {"u1", "u3"}, email : {"e1", "e3"}, tribe : {"VALHARS"}, password : {"p3"}]
Updates == {[tribe |-> "VALHARS"], [username |-> "u2"]}
NewPasswords == {"p9"}

\* ORDER BY User.username
UsernameRank(name) ==
    CASE name = "u1" -> 1 [] name = "u2" -> 2 [] name = "u3" -> 3 [] OTHER -> 4

RECURSIVE SortByUsername(_)
SortByUsername(S) ==
    IF S = {} THEN <<>>
    ELSE LET m == CHOOSE x \in S :
                    \A y \in S : UsernameRank(x.username) <= UsernameRank(y.username)
         IN <<m>> \o SortByUsername(S \ {m})

\* The rows that ORDER BY username OFFSET skip LIMIT take can return of the
\* six-relation join of the persons us[i..]: the rows of one person are
\* adjacent, in any order.
RECURSIVE OrderedWindow(_, _, _, _)
OrderedWindow(us, i, skip, take) ==
    IF i > Len(us) \/ take = 0 THEN {<<>>}
    ELSE LET B == FullJoin({us[i]})
             s == Min(skip, Cardinality(B))
             c == Min(take, Cardinality(B) - s)
         IN {a \o b : a \in InjSeqs(B, c), b \in OrderedWindow(us, i + 1, skip - s, take - c)}

\* The rows that OFFSET skip LIMIT take can return of the rows S, unordered
UnorderedWindow(S, skip, take) ==
    InjSeqs(S, Min(take, Max(0, Cardinality(S) - skip)))

\* ------------------------------------------------------------ operations
NoResult == [op |-> "none", args |-> <<>>, kind |-> "none", value |-> <<>>]

Ready(p) == pc[p] = "idle" /\ result[p].kind = "none"

\* The call of process p ends: it returns value, or raises the error kind.
\* args are the arguments the properties refer to: the lookup key, the draft, the
\* (person, item, flag) of an equip; a listing records none.
Return(p, op, args, kind, value) ==
    /\ result' = [result EXCEPT ![p] = [op |-> op, args |-> args, kind |-> kind, value |-> value]]
    /\ pc' = [pc EXCEPT ![p] = "idle"]
    /\ arg' = [arg EXCEPT ![p] = <<>>]

Goto(p, label, a) ==
    /\ pc' = [pc EXCEPT ![p] = label]
    /\ arg' = [arg EXCEPT ![p] = a]
    /\ UNCHANGED result

\* The unique constraints of the user table
Collides(u, others) ==
    \E w \in others : w.username = u.username \/ w.email = u.email

\* create_user: session.add, session.commit
CreatePersist(p, user_create) ==
    /\ Ready(p)
    /\ writes < MaxWrites
    /\ writes' = writes + 1
    /\ LET new_user == NewUser(nextId, user_create)
       IN IF Collides(new_user, users)
          THEN /\ Goto(p, "create_rollback", <<user_create>>)
               /\ UNCHANGED <<users, nextId>>
          ELSE /\ users' = users \cup {new_user}
               /\ nextId' = nextId + 1
               /\ Goto(p, "create_refresh", <<user_create, new_user.id>>)
    /\ UNCHANGED <<links, input, output>>

\* create_user: session.refresh(new_user), return new_user
CreateRefresh(p) ==
    /\ pc[p] = "create_refresh"
    /\ LET row == {u \in users : u.id = arg[p][2]}
       IN IF row = {}
          THEN Return(p, "create_user", <<arg[p][1]>>, "InvalidRequestError", <<>>)
          ELSE Return(p, "create_user", <<arg[p][1]>>, "user", <<CHOOSE u \in row : TRUE>>)
    /\ UNCHANGED <<users, links, nextId, writes, input, output>>

\* The two re-queries in the other order: the username is looked up first.
CreateRollbackUsernameFirst(p) ==
    /\ pc[p] = "create_rollback"
    /\ IF \E u \in users : u.username = arg[p][1].username
       THEN Return(p, "create_user", arg[p], "UserUsernameAlreadyExistsError", <<>>)
       ELSE Goto(p, "create_requery_username", arg[p])
    /\ UNCHANGED <<users, links, nextId, writes, input, output>>

\* create_user: except IntegrityError: rollback, re-query by email
CreateRollback(p) ==
    /\ pc[p] = "create_rollback"
    /\ IF \E u \in users : u.email = arg[p][1].email
       THEN Return(p, "create_user", arg[p], "UserEmailAlreadyExistsError", <<>>)
       ELSE Goto(p, "create_requery_username", arg[p])
    /\ UNCHANGED <<users, links, nextId, writes, input, output>>

\* create_user: re-query by username; the function ends without a return
\* statement when that finds nobody
CreateRequeryUsername(p) ==
    /\ pc[p] = "create_requery_username"
    /\ IF \E u \in users : u.username = arg[p][1].username
       THEN Return(p, "create_user", arg[p], "UserUsernameAlreadyExistsError", <<>>)
       ELSE Return(p, "create_user", arg[p], "None", <<>>)
    /\ UNCHANGED <<users, links, nextId, writes, input, output>>

\* The fetch of the items+quests join for the persons sel and the view built
\* of it, as get_user_by_id, get_user_by_username and get_user_by_email do it
FetchView(p, op, args, sel, notFound) ==
    LET S == SingleJoin(sel)
    IN IF S = {}
       THEN Return(p, op, args, notFound, <<>>)
       ELSE \E rows \in AllRows(S) : Return(p, op, args, "view", <<construct_user_view(rows)>>)

\* The same fetch in update_user and update_user_password, where nothing
\* stands between .all() and _construct_user_view: rows[0] of an empty list
\* raises IndexError, which except NoResultFound does not catch
FetchViewUnchecked(p, op, args, sel) ==
    LET S == SingleJoin(sel)
    IN IF S = {}
       THEN Return(p, op, args, "IndexError", <<>>)
       ELSE \E rows \in AllRows(S) : Return(p, op, args, "view", <<construct_user_view(rows)>>)

get_user_by_id(p, user_id) ==
    /\ Ready(p)
    /\ FetchView(p, "get_user_by_id", <<user_id>>, {u \in users : u.id = user_id},
                 "UserNotFoundError")
    /\ UNCHANGED <<users, links, nextId, writes, input, output>>

get_user_by_username(p, user_username) ==
    /\ Ready(p)
    /\ FetchView(p, "get_user_by_username", <<user_username>>,
                 {u \in users : u.username = user_username}, "UserUsernameNotFoundError")
    /\ UNCHANGED <<users, links, nextId, writes, input, output>>

get_user_by_email(p, user_email) ==
    /\ Ready(p)
    /\ FetchView(p, "get_user_by_email", <<user_email>>,
                 {u \in users : u.email = user_email}, "UserEmailNotFoundError")
    /\ UNCHANGED <<users, links, nextId, writes, input, output>>

get_user_by_username_with_password(p, user_username) ==
    /\ Ready(p)
    /\ LET row == {u \in users : u.username = user_username}
       IN IF row = {}
          THEN Return(p, "get_user_by_username_with_password", <<user_username>>,
                      "NoResultFound", <<>>)
          ELSE Return(p, "get_user_by_username_with_password", <<user_username>>,
                      "user", <<CHOOSE u \in row : TRUE>>)
    /\ UNCHANGED <<users, links, nextId, writes, input, output>>

get_users(p, offset, limit) ==
    /\ Ready(p)
    /\ \E rows \in OrderedWindow(SortByUsername(users), 1, offset, limit) :
          Return(p, "get_users", <<>>, "views", construct_user_views(rows))
    /\ UNCHANGED <<users, links, nextId, writes, input, output>>

get_users_by_tribe(p, user_tribe, offset, limit) ==
    /\ Ready(p)
    /\ \E rows \in UnorderedWindow(FullJoin({u \in users : u.tribe = user_tribe}), offset, limit) :
          Return(p, "get_users_by_tribe", <<>>, "views", construct_user_views(rows))
    /\ UNCHANGED <<users, links, nextId, writes, input, output>>

\* db_user.sqlmodel_update(data)
sqlmodel_update(db_user, data) == data @@ db_user

\* update_user: select .one(), sqlmodel_update, commit
UpdateCommit(p, user_id, user_update) ==
    /\ Ready(p)
    /\ writes < MaxWrites
    /\ writes' = writes + 1
    /\ LET row == {u \in users : u.id = user_id}
       IN IF row = {}
          THEN /\ Return(p, "update_user", <<user_id>>, "UserNotFoundError", <<>>)
               /\ UNCHANGED users
          ELSE LET db_user == CHOOSE u \in row : TRUE
                   updated == sqlmodel_update(db_user, user_update)
               IN IF Collides(updated, users \ {db_user})
                  THEN /\ Return(p, "update_user", <<user_id>>, "IntegrityError", <<>>)
                       /\ UNCHANGED users
                  ELSE /\ users' = (users \ {db_user}) \cup {updated}
                       /\ Goto(p, "update_refresh", <<user_id>>)
    /\ UNCHANGED <<links, nextId, input, output>>

\* update_user_password: select .one(), db_user.password = password, commit
PasswordCommit(p, user_id, password) ==
    /\ Ready(p)
    /\ writes < MaxWrites
    /\ writes' = writes + 1
    /\ LET row == {u \in users : u.id = user_id}
       IN IF row = {}
          THEN /\ Return(p, "update_user_password", <<user_id>>, "UserNotFoundError", <<>>)
               /\ UNCHANGED users
          ELSE LET db_user == CHOOSE u \in row : TRUE
               IN /\ users' = (users \ {db_user}) \cup {[db_user EXCEPT !.password = password]}
                  /\ Goto(p, "password_refresh", <<user_id>>)
    /\ UNCHANGED <<links, nextId, input, output>>

OpOf(label) ==
    IF label \in {"update_refresh", "update_fetch"} THEN "update_user" ELSE "update_user_password"

\* update_user, update_user_password: session.refresh(db_user)
Refresh(p) ==
    /\ pc[p] \in {"update_refresh", "password_refresh"}
    /\ IF {u \in users : u.id = arg[p][1]} = {}
       THEN Return(p, OpOf(pc[p]), arg[p], "InvalidRequestError", <<>>)
       ELSE Goto(p, IF pc[p] = "update_refresh" THEN "update_fetch" ELSE "password_fetch", arg[p])
    /\ UNCHANGED <<users, links, nextId, writes, input, output>>

\* update_user, update_user_password: the re-fetch and the view
Refetch(p) ==
    /\ pc[p] \in {"update_fetch", "password_fetch"}
    /\ FetchViewUnchecked(p, OpOf(pc[p]), arg[p], {u \in users : u.id = arg[p][1]})
    /\ UNCHANGED <<users, links, nextId, writes, input, output>>

\* The flag kept per item instead of per link: every link to lk's item is set.
SetEquippedOnItem(ls, lk, equipped) ==
    {IF l.item_id = lk.item_id THEN [l EXCEPT !.equipped = equipped] ELSE l : l \in ls}

\* item_link.equipped = equipped on the link lk
SetEquipped(ls, lk, equipped) == (ls \ {lk}) \cup {[lk EXCEPT !.equipped = equipped]}

\* equip_item_to_user: the two lookups, the assignment, commit and refresh
EquipCommit(p, user_id, item_id, equipped) ==
    /\ Ready(p)
    /\ writes < MaxWrites
    /\ writes' = writes + 1
    /\ LET args == <<user_id, item_id, equipped>>
           lk == {l \in links : l.user_id = user_id /\ l.item_id = item_id}
       IN IF {u \in users : u.id = user_id} = {}
          THEN /\ Return(p, "equip_item_to_user", args, "UserNotFoundError", <<>>)
               /\ UNCHANGED links
          ELSE IF lk = {}
          THEN /\ Return(p, "equip_item_to_user", args, "ItemLinkToUserNotFoundError", <<>>)
               /\ UNCHANGED links
          ELSE /\ links' = SetEquipped(links, CHOOSE l \in lk : TRUE, equipped)
               /\ Goto(p, "equip_fetch", args)
    /\ UNCHANGED <<users, nextId, input, output>>

\* equip_item_to_user: return await self.get_user_by_id(user_id)
EquipFetch(p) ==
    /\ pc[p] = "equip_fetch"
    /\ FetchView(p, "equip_item_to_user", arg[p], {u \in users : u.id = arg[p][1]},
                 "UserNotFoundError")
    /\ UNCHANGED <<users, links, nextId, writes, input, output>>

delete_user(p, user_id) ==
    /\ Ready(p)
    /\ writes < MaxWrites
    /\ writes' = writes + 1
    /\ LET row == {u \in users : u.id = user_id}
       IN IF row = {}
          THEN /\ Return(p, "delete_user", <<user_id>>, "UserNotFoundError", <<>>)
               /\ UNCHANGED users
          ELSE /\ users' = users \ row
               /\ Return(p, "delete_user", <<user_id>>, "ok", <<>>)
    /\ UNCHANGED <<links, nextId, input, output>>

\* The caller takes the outcome of the call; the next call can be made.
Respond(p) ==
    /\ result[p].kind # "none"
    /\ result' = [result EXCEPT ![p] = NoResult]
    /\ UNCHANGED <<users, links, nextId, writes, pc, arg, input, output>>

Quiet == \A q \in Procs : result[q].kind = "none"

\* The outcome of one call is taken before the next step of any call.
Next ==
    \/ \E p \in Procs, d \in Drafts : Quiet /\ CreatePersist(p, d)
    \/ \E p \in Procs : Quiet /\ CreateRefresh(p)
    \/ \E p \in Procs : Quiet /\ CreateRollback(p)
    \/ \E p \in Procs : Quiet /\ CreateRequeryUsername(p)
    \/ \E p \in Procs, id \in Ids : Quiet /\ get_user_by_id(p, id)
    \/ \E p \in Procs, n \in Usernames : Quiet /\ get_user_by_username(p, n)
    \/ \E p \in Procs, e \in Emails : Quiet /\ get_user_by_email(p, e)
    \/ \E p \in Procs, n \in Usernames : Quiet /\ get_user_by_username_with_password(p, n)
    \/ \E p \in Procs, o \in 0 .. MaxOffset, l \in 0 .. MaxLimit : Quiet /\ get_users(p, o, l)
    \/ \E p \in Procs, t \in TribeMembers, o \in 0 .. MaxOffset, l \in 0 .. MaxLimit :
          Quiet /\ get_users_by_tribe(p, t, o, l)
    \/ \E p \in Procs, id \in Ids, upd \in Updates : Quiet /\ UpdateCommit(p, id, upd)
    \/ \E p \in Procs, id \in Ids, pw \in NewPasswords : Quiet /\ PasswordCommit(p, id, pw)
    \/ \E p \in Procs : Quiet /\ Refresh(p)
    \/ \E p \in Procs : Quiet /\ Refetch(p)
    \/ \E p \in Procs, id \in Ids, it \in ItemIds, b \in BOOLEAN :
          Quiet /\ EquipCommit(p, id, it, b)
    \/ \E p \in Procs : Quiet /\ EquipFetch(p)
    \/ \E p \in Procs, id \in Ids : Quiet /\ delete_user(p, id)
    \/ \E p \in Procs : Respond(p)

Spec == Init /\ [][Next]_vars

\* ------------------------------------------------ creates on empty tables
CreateDrafts ==
    [username : {"u1", "u2"}, email : {"e1", "e2"}, tribe : TribeInputs, password : {"p1"}]

InitCreate ==
    /\ users = {}
    /\ links = {}
    /\ nextId = 1
    /\ writes = 0
    /\ pc = [p \in Procs |-> "idle"]
    /\ arg = [p \in Procs |-> <<>>]
    /\ result = [p \in Procs |-> NoResult]
    /\ input = <<>>
    /\ output = <<>>

\* Each process calls create_user once; the steps of the two calls interleave.
NextCreate ==
    \E p \in Procs :
        \/ \E d \in CreateDrafts : CreatePersist(p, d)
        \/ CreateRefresh(p)
        \/ CreateRollback(p)
        \/ CreateRequeryUsername(p)

SpecCreate == InitCreate /\ [][NextCreate]_vars

\* ------------------------------------------------- properties of the batch path
Kinds == {"items", "quests", "tasks", "ratings", "comments", "reactions"}

\* The id of the child of kind K that tuple t carries, if it carries one.
ChildOf(t, K) ==
    CASE K = "items" -> IF t.user_item_link # <<>> /\ t.item # <<>> THEN <<t.item[1].id>> ELSE <<>>
      [] K = "quests" -> IF t.user_quest_link # <<>> /\ t.quest # <<>> THEN <<t.quest[1].id>> ELSE <<>>
      [] K = "tasks" -> IF t.task # <<>> THEN <<t.task[1].id>> ELSE <<>>
      [] K = "ratings" -> IF t.rating # <<>> THEN <<t.rating[1].id>> ELSE <<>>
      [] K = "comments" -> IF t.comment # <<>> THEN <<t.comment[1].id>> ELSE <<>>
      [] K = "reactions" -> IF t.reaction # <<>> THEN <<t.reaction[1].id>> ELSE <<>>

\* Where person pid, and where child c of kind K of person pid, first appears
\* in the input (0: nowhere).
FirstOfPerson(pid) ==
    LET S == {n \in DOMAIN input : input[n].user.id = pid}
    IN IF S = {} THEN 0 ELSE CHOOSE n \in S : \A m \in S : n <= m

FirstOfChild(pid, K, c) ==
    LET S == {n \in DOMAIN input : input[n].user.id = pid /\ ChildOf(input[n], K) = <<c>>}
    IN IF S = {} THEN 0 ELSE CHOOSE n \in S : \A m \in S : n <= m

EntriesFor(v, K, c) == {j \in DOMAIN v[K] : v[K][j].id = c}

\* C1: every (person, child) pair that some input tuple carries has exactly one
\* entry in the matching collection of the view emitted for that person,
\* however often the pair recurs, and an item entry carries the equipped flag
\* of that person's own link to the item.
C1_ExactlyOneEntryPerChild ==
    \A n \in DOMAIN input :
        LET t == input[n]
            V == {i \in DOMAIN output : output[i].id = t.user.id}
        IN /\ V # {}
           /\ \A i \in V : \A K \in Kinds :
                  ChildOf(t, K) # <<>> =>
                      /\ Cardinality(EntriesFor(output[i], K, ChildOf(t, K)[1])) = 1
                      /\ K = "items" =>
                            \A j \in EntriesFor(output[i], K, ChildOf(t, K)[1]) :
                               \E l \in StoredLinks :
                                  /\ l.user_id = t.user.id
                                  /\ l.item_id = t.item[1].id
                                  /\ output[i].items[j].equipped = l.equipped

\* Person 2's item 1 and person 1's item 1 each recur in the input with other
\* children beside them, and the two links differ in their flag.
C1_Witness ==
    /\ Len(input) = 3
    /\ input[1].user.id = 2 /\ input[2].user.id = 2 /\ input[3].user.id = 1
    /\ ChildOf(input[1], "items") = <<1>> /\ ChildOf(input[2], "items") = <<1>>
    /\ ChildOf(input[3], "items") = <<1>>
    /\ input[1].task # input[2].task
    /\ Len(output) = 2
    /\ Len(output[1].items) = 1 /\ output[1].items[1].equipped
    /\ Len(output[2].items) = 1 /\ ~output[2].items[1].equipped
    /\ Len(output[1].tasks) = 2

\* C3: the output holds one view per distinct person id of the input, in the
\* order in which each id first appears, and every collection of a view lists
\* the children of that person's tuples in the order in which each first
\* appears, also when the tuples of a person are not contiguous.
C3_FirstAppearanceOrder ==
    /\ {output[i].id : i \in DOMAIN output} = {input[n].user.id : n \in DOMAIN input}
    /\ \A i, j \in DOMAIN output :
          i < j => FirstOfPerson(output[i].id) < FirstOfPerson(output[j].id)
    /\ \A i \in DOMAIN output : \A K \in Kinds :
          LET v == output[i]
          IN /\ {v[K][j].id : j \in DOMAIN v[K]}
                   = {ChildOf(input[n], K)[1] :
                        n \in {m \in DOMAIN input : /\ input[m].user.id = v.id
                                                     /\ ChildOf(input[m], K) # <<>>}}
             /\ \A j, k \in DOMAIN v[K] :
                   j < k => FirstOfChild(v.id, K, v[K][j].id)
                              < FirstOfChild(v.id, K, v[K][k].id)

\* Person 2's tuples surround person 1's, and person 2's tasks and quests
\* arrive in descending id order.
C3_Witness ==
    /\ Len(input) = 3
    /\ input[1].user.id = 2 /\ input[2].user.id = 1 /\ input[3].user.id = 2
    /\ ChildOf(input[1], "tasks") = <<3>> /\ ChildOf(input[3], "tasks") = <<2>>
    /\ ChildOf(input[1], "quests") = <<2>> /\ ChildOf(input[3], "quests") = <<1>>
    /\ Len(output) = 2 /\ output[1].id = 2 /\ output[2].id = 1
    /\ Len(output[1].tasks) = 2 /\ output[1].tasks[1].id = 3
    /\ Len(output[1].quests) = 2 /\ output[1].quests[1].id = 2

\* ---------------------------------------------- properties of the operations
Views(p) == IF result[p].kind \in {"view", "views"} THEN Range(result[p].value) ELSE {}

NoRepeat(entries) ==
    \A i, j \in DOMAIN entries : i # j => entries[i].id # entries[j].id

\* C2: the view the single-entity aggregator builds of the items+quests join
\* of one person holds no two item entries with the same item id and no two
\* quest entries with the same quest id.
C2_NoDuplicateEntries ==
    \A p \in Procs :
        result[p].kind = "view" =>
            /\ NoRepeat(result[p].value[1].items)
            /\ NoRepeat(result[p].value[1].quests)

BothCreated == \A p \in Procs : result[p].op = "create_user"

\* C4: of two concurrent creates with the same email, exactly one returns the
\* created person and the other fails with DuplicateEmail.
C4_OneCreatedOneDuplicateEmail ==
    (BothCreated /\ result[1].args[1].email = result[2].args[1].email) =>
        \E p, q \in Procs :
            /\ p # q
            /\ result[p].kind = "user"
            /\ result[p].value[1] \in users
            /\ result[p].value[1].email = result[p].args[1].email
            /\ result[q].kind = "UserEmailAlreadyExistsError"

\* Both creates have ended, with one email and two usernames.
C4_Witness ==
    /\ BothCreated
    /\ result[1].args[1].email = result[2].args[1].email
    /\ result[1].args[1].username # result[2].args[1].username
    /\ result[1].kind = "UserEmailAlreadyExistsError"
    /\ result[2].kind = "user"

\* C5: a create whose persist step hit a uniqueness violation ends in
\* DuplicateEmail when its re-query by email finds the draft's email,
\* otherwise in DuplicateUsername when its re-query by username finds the
\* draft's username, and never in a normal return.
C5_ConflictEndsInDuplicateError ==
    [][\A p \in Procs :
          /\ (pc[p] = "create_rollback" /\ pc'[p] # pc[p]) =>
                IF \E u \in users : u.email = arg[p][1].email
                THEN pc'[p] = "idle" /\ result'[p].kind = "UserEmailAlreadyExistsError"
                ELSE pc'[p] = "create_requery_username"
          /\ (pc[p] = "create_requery_username" /\ pc'[p] # pc[p]) =>
                /\ pc'[p] = "idle"
                /\ result'[p].kind = "UserUsernameAlreadyExistsError"]_vars

LinkOf(ls, user_id, item_id) == {l \in ls : l.user_id = user_id /\ l.item_id = item_id}

EntriesOfItem(v, item_id) == {j \in DOMAIN v.items : v.items[j].id = item_id}

\* C6 as first stated: on a (person, item) pair without a link the call fails
\* with LinkNotFound, and every entry for the item in a returned view has the
\* requested flag.
C6_AsStated ==
    \A p \in Procs :
        result[p].op = "equip_item_to_user" =>
            LET a == result[p].args
            IN /\ LinkOf(links, a[1], a[2]) = {} => result[p].kind = "ItemLinkToUserNotFoundError"
               /\ \A v \in Views(p) : \A j \in EntriesOfItem(v, a[2]) : v.items[j].equipped = a[3]

\* C6: setEquipped on a person that does not exist fails with NotFound, and on
\* an existing person without the link with LinkNotFound, changing no link;
\* with person and link present the commit sets that link's flag to the
\* requested value and leaves every other link as it was; a link's flag changes
\* in no other step; and every entry for the item in the returned view carries
\* the flag the link has at the re-fetch.
C6_EquipSetsOneLink ==
    [][\A p \in Procs :
          /\ (Ready(p) /\ result'[p].op = "equip_item_to_user") =>
                LET a == result'[p].args
                IN /\ links' = links
                   /\ result'[p].kind =
                         IF {u \in users : u.id = a[1]} = {} THEN "UserNotFoundError"
                         ELSE "ItemLinkToUserNotFoundError"
                   /\ {u \in users : u.id = a[1]} # {} => LinkOf(links, a[1], a[2]) = {}
          /\ (Ready(p) /\ pc'[p] = "equip_fetch") =>
                LET a == arg'[p]
                    old == LinkOf(links, a[1], a[2])
                    new == LinkOf(links', a[1], a[2])
                IN /\ {u \in users : u.id = a[1]} # {}
                   /\ Cardinality(old) = 1 /\ Cardinality(new) = 1
                   /\ \A l \in new : l.equipped = a[3]
                   /\ links' \ new = links \ old
          /\ (pc[p] = "equip_fetch" /\ pc'[p] = "idle") =>
                LET a == arg[p]
                IN \A i \in DOMAIN result'[p].value :
                      \A j \in EntriesOfItem(result'[p].value[i], a[2]) :
                         \A l \in LinkOf(links, a[1], a[2]) :
                            result'[p].value[i].items[j].equipped = l.equipped
          /\ \A l \in links :
                l \notin links' =>
                   \E q \in Procs : /\ Ready(q) /\ pc'[q] = "equip_fetch"
                                    /\ arg'[q][1] = l.user_id /\ arg'[q][2] = l.item_id]_vars

\* Person 2 unequips item 1, which person 1 holds too: both entries the view
\* has for the item carry the new flag, and person 1's links are as before.
C6_Witness ==
    \E p \in Procs :
        /\ result[p].op = "equip_item_to_user"
        /\ result[p].args = <<2, 1, FALSE>>
        /\ result[p].kind = "view"
        /\ Cardinality(EntriesOfItem(result[p].value[1], 1)) = 2
        /\ \A j \in EntriesOfItem(result[p].value[1], 1) : ~result[p].value[1].items[j].equipped
        /\ [user_id |-> 2, item_id |-> 1, equipped |-> FALSE] \in links
        /\ [user_id |-> 1, item_id |-> 1, equipped |-> FALSE] \in links
        /\ [user_id |-> 1, item_id |-> 2, equipped |-> TRUE] \in links

\* C7: in the operations that fetch the items+quests join of one person, a
\* fetch of zero rows ends in the NotFound kind of the lookup and the
\* aggregator is never applied to an empty sequence.
C7_EmptyFetchIsNotFound ==
    \A p \in Procs :
        /\ result[p].kind # "IndexError"
        /\ (result[p].op = "get_user_by_id"
              /\ {u \in users : u.id = result[p].args[1]} = {})
                 => result[p].kind = "UserNotFoundError"
        /\ (result[p].op = "get_user_by_username"
              /\ {u \in users : u.username = result[p].args[1]} = {})
                 => result[p].kind = "UserUsernameNotFoundError"
        /\ (result[p].op = "get_user_by_email"
              /\ {u \in users : u.email = result[p].args[1]} = {})
                 => result[p].kind = "UserEmailNotFoundError"

NotText ==
    {"id", "intelligence", "strength", "agility", "wise", "psycho",
     "items", "quests", "tasks", "ratings", "comments", "reactions"}

Credentials ==
    {u.password : u \in users} \cup NewPasswords
        \cup {get_password_hash(pw) : pw \in {"p1", "p2", "p3", "p9"}}

\* C8: no view an operation returns has a password field or a field whose
\* value is a credential.
C8_NoCredentialInViews ==
    \A p \in Procs : \A v \in Views(p) :
        /\ "password" \notin DOMAIN v
        /\ \A f \in (DOMAIN v) \ NotText : v[f] \notin Credentials

\* The view that update_user_password returns after it has stored a new
\* credential for the person.
C8_Witness ==
    \E p \in Procs :
        /\ result[p].op = "update_user_password"
        /\ result[p].kind = "view"
        /\ \E u \in users : u.id = result[p].value[1].id /\ u.password = "p9"
        /\ result[p].value[1].username = "u1"

StatsOf(r) == <<r.intelligence, r.strength, r.agility, r.wise, r.psycho>>

StatsTable(tribe) ==
    CASE tribe = "NOSFERATI" -> <<8, 2, 2, 1, 10>>
      [] tribe = "VALHARS" -> <<1, 10, 6, 6, 2>>
      [] tribe = "SAHARANS" -> <<9, 2, 3, 10, 1>>
      [] tribe = "GLIMMERKINS" -> <<10, 2, 2, 7, 4>>
      [] OTHER -> <<5, 5, 5, 5, 5>>

\* C9: calculate_initial_stats returns the fixed row of each of the four
\* tribes and (5,5,5,5,5) for an unset or unknown one, and a person a create
\* has stored has the row of its draft's tribe.
C9_InitialStatsFollowTable ==
    /\ \A t \in TribeInputs :
          /\ DOMAIN calculate_initial_stats(t)
                = {"intelligence", "strength", "agility", "wise", "psycho"}
          /\ StatsOf(calculate_initial_stats(t)) = StatsTable(t)
    /\ \A u \in users : StatsOf(u) = StatsTable(u.tribe)
    /\ \A p \in Procs :
          result[p].kind = "user" =>
             /\ result[p].value[1].tribe = result[p].args[1].tribe
             /\ StatsOf(result[p].value[1]) = StatsTable(result[p].args[1].tribe)

\* Two creates have stored a GLIMMERKINS person and a person with no tribe.
C9_Witness ==
    /\ \A p \in Procs : result[p].kind = "user"
    /\ \E u \in users : u.tribe = "GLIMMERKINS" /\ StatsOf(u) = <<10, 2, 2, 7, 4>>
    /\ \E u \in users : u.tribe = "None" /\ StatsOf(u) = <<5, 5, 5, 5, 5>>

\* The children of kind K that person pid has in storage
StoredChildren(pid, K) ==
    CASE K = "items" -> {l.item_id : l \in {x \in links : x.user_id = pid}}
      [] K = "quests" -> {l.quest_id : l \in {x \in UserQuestLinks : x.user_id = pid}}
      [] K = "tasks" -> {c.id : c \in {x \in Tasks : x.user_id = pid}}
      [] K = "ratings" -> {c.id : c \in {x \in Ratings : x.user_id = pid}}
      [] K = "comments" -> {c.id : c \in {x \in Comments : x.user_id = pid}}
      [] K = "reactions" -> {c.id : c \in {x \in Reactions : x.user_id = pid}}

\* C10: every view that get_users or get_users_by_tribe returns holds exactly
\* one entry for each child the person has in storage, whatever the offset
\* and the limit.
C10_ListedViewsComplete ==
    \A p \in Procs :
        result[p].op \in {"get_users", "get_users_by_tribe"} =>
            \A v \in Views(p) : \A K \in Kinds :
                /\ {v[K][j].id : j \in DOMAIN v[K]} = StoredChildren(v.id, K)
                /\ Len(v[K]) = Cardinality(StoredChildren(v.id, K))

====
